---- MODULE Spec2Model ----
(***************************************************************************)
(* Model of src/src/pgeof.cpp: neighborhood_pca and                        *)
(* compute_geometric_features (the per-point kernel and its OpenMP loop).  *)
(*                                                                         *)
(* Floats are modelled by integers; NaN is a distinguished value on which  *)
(* every ordered comparison is false.  The eigen-decomposition a call of   *)
(* neighborhood_pca(i_point, k) computes from xyz/nn is identified by the  *)
(* pair (i_point, k); its eigenentropy is an input function of that pair.  *)
(***************************************************************************)
EXTENDS FiniteSets, Integers, Sequences, TLC

\* ------------------------------------------------------------------ bounds
MaxPoints  == 2   \* points of the cloud in the parallel runs
MaxThreads == 2   \* size of the OpenMP team
MaxNNPar   == 2   \* neighbors per point in the parallel runs
MaxNN      == 3   \* neighbors of the point in the one-point runs
MaxEnt     == 2   \* eigenentropies range over 0 .. MaxEnt
MaxParam   == 3   \* k_min, k_step, k_min_search range over -1 .. MaxParam
MaxEig     == 2   \* solver eigenvalues range over -MaxEig .. MaxEig

\* ------------------------------------------------------- program constants
NFeat         == 11      \* floats per point in the features buffer
ProgressEvery == 10000   \* s_point % 10000
NaN           == -1      \* float NaN (0.f / 0.f); not an eigenentropy value

VARIABLES
    \* inputs of compute_geometric_features (read-only)
    n_points, n_threads, nn_ptr, k_min, k_step, k_min_search, verbose,
    entropy,      \* entropy[i][k]: eigenentropy of the k-prefix of point i, k >= 1
    \* shared state
    features,     \* the output buffer, 11 * n_points cells
    writers,      \* writers[j]: the points whose iteration stored to features[j], in order
    n_stores,     \* number of stores made through the features pointer
    evals,        \* evals[i]: the PCAOutput of every neighborhood_pca call of point i, in order
    s_point,      \* the shared progress counter
    out,          \* lines sent to std::cout
    returned,     \* compute_geometric_features has returned
    \* per-thread state of the loop body
    pc, i_point, k0, k, pca, k_optimal, reg,
    \* neighborhood_pca, lines 52-107: the solver's result, the position in the
    \* function, and val, v0, v1, v2
    es, pca_pc, pca_ret

inputs == <<n_points, n_threads, nn_ptr, k_min, k_step, k_min_search, verbose, entropy>>
shared == <<features, writers, n_stores, evals, s_point, out, returned>>
locals == <<pc, i_point, k0, k, pca, k_optimal, reg>>
solver == <<es, pca_pc, pca_ret>>
vars   == <<inputs, shared, locals, solver>>

Min(a, b) == IF a < b THEN a ELSE b
Max(a, b) == IF a > b THEN a ELSE b

\* float operator< : false as soon as one operand is NaN
Less(a, b) == a # NaN /\ b # NaN /\ a < b

Points  == 0 .. n_points - 1
Threads == 0 .. n_threads - 1

\* ------------------------------------------------- neighborhood_pca (25-122)
\* PCAOutput: pt/of_k name the neighborhood whose val, v0, v1, v2 it holds;
\* junk > 0 marks a result read from a solver that did not converge.
NoPCA == [pt |-> -1, of_k |-> -1, junk |-> 0, eigenentropy |-> NaN]

\* nn[nn_ptr[i_point] + i_nei], i_nei < k: the cells of nn the call reads
NNReads(i, kk) == { nn_ptr[i] + i_nei : i_nei \in 0 .. kk - 1 }

\* A call with kk = 0 builds a cloud of no rows (line 31) and reduces over it
\* (line 47): depending on the Eigen build the reduction asserts or reads
\* outside the empty matrix and the process ends, or it yields 0 / 0.
MayFault(kk) == kk < 1

\* The possible results of a neighborhood_pca(xyz, nn, nn_ptr, i, kk) that returns.
\* kk >= 1: the covariance is finite, the result a function of the inputs.
\* kk = 0 : cov = 0 / float(0) is NaN everywhere; the EigenSolver does not
\*          converge on it and its eigenvalues()/eigenvectors() are whatever
\*          the solver object holds: any floats, NaN included (here NaN and
\*          the two ends of the eigenentropy range).
NeighborhoodPCA(i, kk) ==
    IF kk >= 1
    THEN { [pt |-> i, of_k |-> kk, junk |-> 0, eigenentropy |-> entropy[i][kk]] }
    ELSE { [pt |-> i, of_k |-> kk, junk |-> 1, eigenentropy |-> e] :
               e \in {NaN, 0, MaxEnt} }

\* --------------------------------------- compute_geometric_features (125-265)
\* line 136: k_nn = nn_ptr[i_point + 1] - nn_ptr[i_point] (uint32, offsets non-decreasing)
KNN(i) == nn_ptr[i + 1] - nn_ptr[i]

\* k_nn < k_min with k_nn a size_t and k_min an int: k_min is converted to
\* size_t, so a negative k_min becomes 2^64 + k_min, above every k_nn < 2^32.
LessSizeInt(u, s) == IF s < 0 THEN TRUE ELSE u < s

\* line 140 without its k_min test
DegenerateOnlyEmpty(knn) == knn <= 0

\* line 140
Degenerate(knn) == LessSizeInt(knn, k_min) \/ knn <= 0

\* line 172
SearchStart(knn) == Min(Max(k_min, k_min_search), knn)

\* line 178: the sizes the loop passes over without a PCA
Skipped(kk, kzero, knn) == (kk > kzero) /\ (kk % k_step # 0) /\ (kk # knn)

\* a slice stride one short of the 11 floats of a point
FeatIdxShort(i, c) == i * (NFeat - 1) + c

\* features[i_point * 11 + c]
FeatIdx(i, c) == i * NFeat + c

\* the float 0 of lines 142-152, the value lines 207-245 derive for slot c
\* from the retained PCAOutput, and a cell nobody has stored to
ZeroFeat          == [zero |-> TRUE,  slot |-> 0,  of |-> NoPCA]
DerivedFeat(c, p) == [zero |-> FALSE, slot |-> c,  of |-> p]
Unset             == [zero |-> FALSE, slot |-> -1, of |-> NoPCA]

\* the 11 stores of one iteration, through the raw pointer
Slice(i) == { FeatIdx(i, c) : c \in 0 .. NFeat - 1 }
StoreSlice(i, vals) ==
    /\ features' = [j \in DOMAIN features |->
                      IF j \in Slice(i)
                      THEN vals[CHOOSE c \in 0 .. NFeat - 1 : FeatIdx(i, c) = j]
                      ELSE features[j]]
    /\ writers'  = [j \in DOMAIN writers |->
                      IF j \in Slice(i) THEN Append(writers[j], i) ELSE writers[j]]
    /\ n_stores' = n_stores + NFeat

\* #pragma omp parallel for schedule(static): one contiguous chunk per thread
ChunkLo(t) ==
    LET q == n_points \div n_threads
        r == n_points % n_threads
    IN  IF t < r THEN t * (q + 1) ELSE t * q + r
ChunkHi(t) == ChunkLo(t + 1)

\* ------------------------------------------------------------ loop body
\* line 133: after i_point++ the thread goes on with its chunk or leaves the loop
AfterPoint(t) == IF i_point[t] + 1 < ChunkHi(t) THEN "loop" ELSE "done"

\* line 174: k < k_nn + 1 decides whether the search goes on after k++
AfterStep(kk, knn) == IF kk + 1 < knn + 1 THEN "search" ELSE "derive"

\* line 188: the candidate replaces the retained PCA
Keeps(kk, kzero, pca_k, cur) ==
    (kk = kzero) \/ Less(pca_k.eigenentropy, cur.eigenentropy)

\* lines 133-154: the iteration of a point with too few neighbors
ZeroFill(t) ==
    /\ pc[t] = "loop"
    /\ Degenerate(KNN(i_point[t]))
    /\ StoreSlice(i_point[t], [c \in 0 .. NFeat - 1 |-> ZeroFeat])
    /\ i_point' = [i_point EXCEPT ![t] = @ + 1]
    /\ pc' = [pc EXCEPT ![t] = AfterPoint(t)]
    /\ UNCHANGED <<inputs, evals, s_point, out, returned, k0, k, pca, k_optimal, reg, solver>>

\* lines 159-165: search disabled, one PCA of the whole neighborhood
NoSearch(t) ==
    /\ pc[t] = "loop"
    /\ ~Degenerate(KNN(i_point[t]))
    /\ k_step < 1
    /\ \E r \in NeighborhoodPCA(i_point[t], KNN(i_point[t])) :
          /\ pca' = [pca EXCEPT ![t] = r]
          /\ evals' = [evals EXCEPT ![i_point[t]] = Append(@, r)]
    /\ k_optimal' = [k_optimal EXCEPT ![t] = KNN(i_point[t])]
    /\ pc' = [pc EXCEPT ![t] = "derive"]
    /\ UNCHANGED <<inputs, features, writers, n_stores, s_point, out, returned, i_point, k0, k, reg, solver>>

\* lines 159-160, 172-194 for k = k0: pca and k_optimal are declared without a
\* value, k starts at k0, a size line 178 never skips and line 188 always keeps
SearchFirst(t) ==
    LET i    == i_point[t]
        kk   == SearchStart(KNN(i))
    IN  /\ pc[t] = "loop"
        /\ ~Degenerate(KNN(i))
        /\ ~(k_step < 1)
        /\ kk < KNN(i) + 1
        /\ ~Skipped(kk, kk, KNN(i))
        /\ \E pca_k \in NeighborhoodPCA(i, kk) :
              /\ evals' = [evals EXCEPT ![i] = Append(@, pca_k)]
              /\ IF Keeps(kk, kk, pca_k, NoPCA)
                 THEN /\ pca' = [pca EXCEPT ![t] = pca_k]
                      /\ k_optimal' = [k_optimal EXCEPT ![t] = kk]
                 ELSE /\ pca' = [pca EXCEPT ![t] = NoPCA]
                      /\ k_optimal' = [k_optimal EXCEPT ![t] = -1]
        /\ k0' = [k0 EXCEPT ![t] = kk]
        /\ k' = [k EXCEPT ![t] = kk + 1]
        /\ pc' = [pc EXCEPT ![t] = AfterStep(kk, KNN(i))]
        /\ UNCHANGED <<inputs, features, writers, n_stores, s_point, out, returned, i_point, reg, solver>>

\* the same call of line 184 for k = k0 = 0, ending the process (lines 31-49)
SearchFaults(t) ==
    /\ pc[t] = "loop"
    /\ ~Degenerate(KNN(i_point[t]))
    /\ ~(k_step < 1)
    /\ MayFault(SearchStart(KNN(i_point[t])))
    /\ pc' = [u \in Threads |-> "aborted"]
    /\ UNCHANGED <<inputs, shared, i_point, k0, k, pca, k_optimal, reg, solver>>

\* lines 174-181: a size the stride passes over
SearchSkip(t) ==
    /\ pc[t] = "search"
    /\ Skipped(k[t], k0[t], KNN(i_point[t]))
    /\ k' = [k EXCEPT ![t] = @ + 1]
    /\ pc' = [pc EXCEPT ![t] = AfterStep(k[t], KNN(i_point[t]))]
    /\ UNCHANGED <<inputs, shared, i_point, k0, pca, k_optimal, reg, solver>>

\* lines 174-194: a PCA of the k-neighborhood, kept if strictly better
SearchEval(t) ==
    /\ pc[t] = "search"
    /\ ~Skipped(k[t], k0[t], KNN(i_point[t]))
    /\ \E pca_k \in NeighborhoodPCA(i_point[t], k[t]) :
          /\ evals' = [evals EXCEPT ![i_point[t]] = Append(@, pca_k)]
          /\ IF Keeps(k[t], k0[t], pca_k, pca[t])
             THEN /\ pca' = [pca EXCEPT ![t] = pca_k]
                  /\ k_optimal' = [k_optimal EXCEPT ![t] = k[t]]
             ELSE UNCHANGED <<pca, k_optimal>>
    /\ k' = [k EXCEPT ![t] = @ + 1]
    /\ pc' = [pc EXCEPT ![t] = AfterStep(k[t], KNN(i_point[t]))]
    /\ UNCHANGED <<inputs, features, writers, n_stores, s_point, out, returned, i_point, k0, reg, solver>>

\* lines 197-245: the features of the retained PCA, stored in the point's slice
Populate(t) ==
    /\ pc[t] = "derive"
    /\ StoreSlice(i_point[t], [c \in 0 .. NFeat - 1 |-> DerivedFeat(c, pca[t])])
    /\ pc' = [pc EXCEPT ![t] = "count"]
    /\ UNCHANGED <<inputs, evals, s_point, out, returned, i_point, k0, k, pca, k_optimal, reg, solver>>

\* line 250, s_point++ on a plain std::size_t shared by the team: the load ...
ProgressLoad(t) ==
    /\ pc[t] = "count"
    /\ reg' = [reg EXCEPT ![t] = s_point]
    /\ pc' = [pc EXCEPT ![t] = "store"]
    /\ UNCHANGED <<inputs, shared, i_point, k0, k, pca, k_optimal, solver>>

\* ... and the store, then lines 251-255 and the loop's i_point++
ProgressStore(t) ==
    /\ pc[t] = "store"
    /\ s_point' = reg[t] + 1
    /\ out' = IF (reg[t] + 1) % ProgressEvery = 0 /\ verbose THEN out + 2 ELSE out
    /\ i_point' = [i_point EXCEPT ![t] = @ + 1]
    /\ pc' = [pc EXCEPT ![t] = AfterPoint(t)]
    \* the iteration's locals go out of scope
    /\ k0' = [k0 EXCEPT ![t] = -1]
    /\ k' = [k EXCEPT ![t] = -1]
    /\ pca' = [pca EXCEPT ![t] = NoPCA]
    /\ k_optimal' = [k_optimal EXCEPT ![t] = -1]
    /\ reg' = [reg EXCEPT ![t] = 0]
    /\ UNCHANGED <<inputs, features, writers, n_stores, evals, returned, solver>>

\* lines 258-264: after the implicit barrier of the parallel for
Return ==
    /\ ~returned
    /\ \A t \in Threads : pc[t] = "done"
    /\ returned' = TRUE
    /\ out' = IF verbose THEN out + 1 ELSE out
    /\ UNCHANGED <<inputs, features, writers, n_stores, evals, s_point, locals, solver>>

Next ==
    \/ \E t \in Threads : ZeroFill(t)
    \/ \E t \in Threads : NoSearch(t)
    \/ \E t \in Threads : SearchFirst(t)
    \/ \E t \in Threads : SearchFaults(t)
    \/ \E t \in Threads : SearchSkip(t)
    \/ \E t \in Threads : SearchEval(t)
    \/ \E t \in Threads : Populate(t)
    \/ \E t \in Threads : ProgressLoad(t)
    \/ \E t \in Threads : ProgressStore(t)
    \/ Return

\* ------------------------------------- neighborhood_pca, lines 52-107
Dim == 0 .. 2

\* es.eigenvalues()[c].real() and es.eigenvectors().col(c), c = 0, 1, 2
NoVec  == <<0, 0, 0>>
EsNone == [values |-> [c \in Dim |-> 0], vectors |-> [c \in Dim |-> NoVec]]
RetNone == [val |-> [j \in Dim |-> 0], v |-> [j \in Dim |-> NoVec]]

\* line 68 with the comparison turned round (increasing eigenvalues)
SortCompIncreasing(ev, i1, i2) == ev[i1] < ev[i2]

\* line 68: the comparator handed to std::sort
SortComp(ev, i1, i2) == ev[i1] > ev[i2]

\* lines 59-68: std::sort leaves indices in an order in which no element
\* precedes, by the comparator, one placed before it
SortedIndices(ev) ==
    { p \in [Dim -> Dim] :
        /\ \A a, b \in Dim : a # b => p[a] # p[b]
        /\ \A a, b \in Dim : a < b => ~SortComp(ev, p[b], p[a]) }

\* std::max(x, 0.f), lines 70-72
ClampZero(x) == IF x < 0 THEN 0 ELSE x

Neg(vec) == <<-vec[1], -vec[2], -vec[3]>>

\* lines 88-107: the eigenvector is expressed in the Z+ half-space
ZPlus(vec) == IF vec[3] < 0 THEN Neg(vec) ELSE vec

\* lines 54-84
SortEigen ==
    /\ pca_pc = "solved"
    /\ \E indices \in SortedIndices(es.values) :
          pca_ret' = [val |-> [j \in Dim |-> ClampZero(es.values[indices[j]])],
                      v   |-> [j \in Dim |-> es.vectors[indices[j]]]]
    /\ pca_pc' = "sorted"
    /\ UNCHANGED <<inputs, shared, locals, es>>

\* lines 88-107, and the return of val, v0, v1, v2 (lines 119-121)
Orient ==
    /\ pca_pc = "sorted"
    /\ pca_ret' = [pca_ret EXCEPT !.v = [j \in Dim |-> ZPlus(pca_ret.v[j])]]
    /\ pca_pc' = "returned"
    /\ UNCHANGED <<inputs, shared, locals, es>>

NextPCA == SortEigen \/ Orient

\* ------------------------------------------------------------ initial states
\* the solver variables while compute_geometric_features is what runs
SolverIdle == es = EsNone /\ pca_pc = "idle" /\ pca_ret = RetNone

\* nn_ptr from the neighbor counts cnt[0 .. n - 1]
RECURSIVE Offsets(_, _)
Offsets(cnt, j) == IF j = 0 THEN 0 ELSE Offsets(cnt, j - 1) + cnt[j - 1]

\* the state on entry, lines 125-133
Entry(n, T, cnt) ==
    /\ n_points = n /\ n_threads = T
    /\ nn_ptr = [j \in 0 .. n |-> Offsets(cnt, j)]
    /\ features = [j \in 0 .. NFeat * n - 1 |-> Unset]
    /\ writers = [j \in 0 .. NFeat * n - 1 |-> <<>>]
    /\ n_stores = 0
    /\ evals = [i \in 0 .. n - 1 |-> <<>>]
    /\ s_point = 0 /\ out = 0 /\ returned = FALSE
    /\ pc = [t \in 0 .. T - 1 |-> IF ChunkLo(t) < ChunkHi(t) THEN "loop" ELSE "done"]
    /\ i_point = [t \in 0 .. T - 1 |-> ChunkLo(t)]
    /\ k0 = [t \in 0 .. T - 1 |-> -1]
    /\ k = [t \in 0 .. T - 1 |-> -1]
    /\ pca = [t \in 0 .. T - 1 |-> NoPCA]
    /\ k_optimal = [t \in 0 .. T - 1 |-> -1]
    /\ reg = [t \in 0 .. T - 1 |-> 0]
    /\ SolverIdle

\* entropy[i][m] for the sizes m = 1 .. cnt[i] of every point, from prof[i][m]
EntropyOf(n, cnt, prof) == [i \in 0 .. n - 1 |-> [m \in 1 .. cnt[i] |-> prof[i][m]]]

\* a team of up to MaxThreads threads on a cloud of up to MaxPoints points
Init ==
    /\ \E n \in 1 .. MaxPoints, T \in 1 .. MaxThreads :
         \E cnt \in [0 .. n - 1 -> {0, 1, MaxNNPar}] :
            /\ entropy = EntropyOf(n, cnt, [i \in 0 .. n - 1 |->
                             [m \in 1 .. MaxNNPar |-> (i + m) % (MaxEnt + 1)]])
            /\ Entry(n, T, cnt)
    /\ k_min \in 0 .. 1
    /\ k_step \in 0 .. 2
    /\ k_min_search = 0
    /\ verbose \in BOOLEAN

Spec == Init /\ [][Next]_vars

\* one thread on one point, every configuration of the three int parameters
InitPoint ==
    /\ \E cnt \in [0 .. 0 -> 0 .. MaxNN] :
         \E prof \in [0 .. 0 -> [1 .. MaxNN -> 0 .. MaxEnt]] :
            /\ entropy = EntropyOf(1, cnt, prof)
            /\ Entry(1, 1, cnt)
    /\ k_min \in -1 .. MaxParam
    /\ k_step \in -1 .. MaxParam
    /\ k_min_search \in -1 .. MaxParam
    /\ verbose = FALSE

SpecPoint == InitPoint /\ [][Next]_vars

\* a call of neighborhood_pca right after line 52: any three real eigenvalues,
\* in any order, with three distinguishable eigenvector columns
InitPCA ==
    /\ \E vals \in [Dim -> -MaxEig .. MaxEig], z \in [Dim -> {-1, 0, 1}] :
          es = [values |-> vals, vectors |-> [c \in Dim |-> <<c + 1, -(c + 1), z[c]>>]]
    /\ pca_pc = "solved"
    /\ pca_ret = RetNone
    /\ n_points = 1 /\ n_threads = 1
    /\ nn_ptr = [j \in 0 .. 1 |-> j]
    /\ k_min = 1 /\ k_step = 0 /\ k_min_search = 1 /\ verbose = FALSE
    /\ entropy = [i \in 0 .. 0 |-> [m \in 1 .. 1 |-> 0]]
    /\ features = [j \in 0 .. NFeat - 1 |-> Unset]
    /\ writers = [j \in 0 .. NFeat - 1 |-> <<>>]
    /\ n_stores = 0
    /\ evals = [i \in 0 .. 0 |-> <<>>]
    /\ s_point = 0 /\ out = 0 /\ returned = FALSE
    /\ pc = [t \in 0 .. 0 |-> "pca"]
    /\ i_point = [t \in 0 .. 0 |-> 0]
    /\ k0 = [t \in 0 .. 0 |-> -1]
    /\ k = [t \in 0 .. 0 |-> -1]
    /\ pca = [t \in 0 .. 0 |-> NoPCA]
    /\ k_optimal = [t \in 0 .. 0 |-> -1]
    /\ reg = [t \in 0 .. 0 |-> 0]

SpecPCA == InitPCA /\ [][NextPCA]_vars

\* ================================================================ properties
\* float <= and == : false as soon as one operand is NaN
Leq(a, b) == a # NaN /\ b # NaN /\ a <= b
FEq(a, b) == a # NaN /\ b # NaN /\ a = b

\* the degenerate case as the specification words it: k_nn below k_min, or zero
FewNeighbors(i) == KNN(i) < k_min \/ KNN(i) = 0

\* the sizes at which neighborhood_pca was called for point i
EvalSizes(i) == { evals[i][n].of_k : n \in DOMAIN evals[i] }

\* point i's slice of the buffer holds 11 zeros / the features of result r
SliceIsZero(i)       == \A c \in 0 .. NFeat - 1 : features[NFeat * i + c] = ZeroFeat
SliceDerivedFrom(i, r) ==
    \A c \in 0 .. NFeat - 1 : features[NFeat * i + c] = DerivedFeat(c, r)

\* the least of the eigenentropies of a non-empty sequence of results that are numbers
MinEntropy(E) ==
    CHOOSE m \in { E[n].eigenentropy : n \in DOMAIN E } \ {NaN} :
        \A n \in DOMAIN E : E[n].eigenentropy # NaN => m <= E[n].eigenentropy
HasNumber(E) == \E n \in DOMAIN E : E[n].eigenentropy # NaN

\* r is the first result of E whose eigenentropy equals the minimum over E
FirstOfMinimum(E, r) ==
    /\ HasNumber(E)
    /\ \E n \in DOMAIN E :
          /\ E[n] = r
          /\ FEq(E[n].eigenentropy, MinEntropy(E))
          /\ \A m \in 1 .. n - 1 : ~FEq(E[m].eigenentropy, MinEntropy(E))

\* ---- C1: a point whose neighbor count is below k_min, or zero, gets no
\* neighborhood_pca call at any time, and its 11 features are exactly 0 once
\* compute_geometric_features has returned.
C1_ZeroFill ==
    \A i \in Points :
        FewNeighbors(i) => /\ evals[i] = <<>>
                           /\ returned => SliceIsZero(i)

\* a returned run with a point that has neighbors, but fewer than k_min
C1_Witness ==
    /\ returned
    /\ \E i \in Points : KNN(i) >= 1 /\ KNN(i) < k_min /\ SliceIsZero(i)

\* ---- C2: with k_step >= 1 the sizes evaluated for a non-degenerate point
\* are exactly k0, k0 + k_step, k0 + 2 k_step, ... up to k_nn, and k_nn,
\* k0 = min(max(k_min, k_min_search), k_nn), whatever k0 is.
C2_StrideFromK0 ==
    \A i \in Points :
        (returned /\ k_step >= 1 /\ ~FewNeighbors(i)) =>
            LET kzero == Min(Max(k_min, k_min_search), KNN(i))
            IN  EvalSizes(i) =
                    { kk \in kzero .. KNN(i) : (kk - kzero) % k_step = 0 } \cup {KNN(i)}

\* ---- C3: at the end of the adaptive search the retained result is that of
\* the smallest evaluated size whose eigenentropy equals the minimum over the
\* evaluated sizes, and k_optimal is that size.
C3_RetainsFirstMinimum ==
    \A t \in Threads :
        (pc[t] = "derive" /\ k_step >= 1) =>
            /\ FirstOfMinimum(evals[i_point[t]], pca[t])
            /\ k_optimal[t] = pca[t].of_k

\* ---- C4: every cell of the buffer is stored to at most once, only by the
\* iteration of point floor(j / 11), no store lands outside the buffer, and
\* at the return every cell has been stored to exactly once.
C4_DisjointWrites ==
    /\ \A j \in DOMAIN writers :
          /\ Len(writers[j]) <= 1
          /\ \A n \in DOMAIN writers[j] : writers[j][n] = j \div NFeat
    /\ n_stores = Cardinality({ j \in DOMAIN writers : writers[j] # <<>> })
    /\ returned =>
          \A j \in 0 .. NFeat * n_points - 1 :
              Len(writers[j]) = 1 /\ features[j] # Unset

\* a returned run of two threads and two points, one zero-filled, one computed
C4_Witness ==
    /\ returned /\ n_threads >= 2 /\ n_points >= 2
    /\ \E i, j \in Points : SliceIsZero(i) /\ evals[j] # <<>>

\* the result a call of neighborhood_pca gives if the call is a function of its arguments
ThePCA(i, kk) == CHOOSE r \in NeighborhoodPCA(i, kk) : TRUE

\* the result lines 159-194 retain for point i if every call is such a function
RECURSIVE ScanFrom(_, _, _, _)
ScanFrom(i, kk, kzero, cur) ==
    IF ~(kk < KNN(i) + 1) THEN cur
    ELSE IF Skipped(kk, kzero, KNN(i)) THEN ScanFrom(i, kk + 1, kzero, cur)
    ELSE ScanFrom(i, kk + 1, kzero,
                  IF Keeps(kk, kzero, ThePCA(i, kk), cur) THEN ThePCA(i, kk) ELSE cur)
FunctionalResult(i) ==
    IF k_step < 1 THEN ThePCA(i, KNN(i))
    ELSE ScanFrom(i, SearchStart(KNN(i)), SearchStart(KNN(i)), NoPCA)
FunctionalFeature(j) ==
    IF Degenerate(KNN(j \div NFeat)) THEN ZeroFeat
    ELSE DerivedFeat(j % NFeat, FunctionalResult(j \div NFeat))

\* ---- C5: the buffer at the return is a function of the inputs alone: the
\* same for every schedule, every value of s_point and either verbose flag.
C5_OutputIsFunctionOfInputs ==
    returned => \A j \in DOMAIN features : features[j] = FunctionalFeature(j)

\* ---- C6: with k_step < 1 a non-degenerate point (k_nn >= 1, k_min <= k_nn)
\* gets exactly one neighborhood_pca call, at k = k_nn, and its features are
\* derived from that result.
C6_OneFullPCA ==
    \A i \in Points :
        (returned /\ k_step < 1 /\ ~FewNeighbors(i)) =>
            /\ Len(evals[i]) = 1
            /\ evals[i][1].of_k = KNN(i)
            /\ SliceDerivedFrom(i, evals[i][1])

\* ---- C7: with k_step = 1, k_optimal is the size an exhaustive scan of the
\* sizes k0 .. k_nn selects: the first size of minimum eigenentropy.
C7_SameAsExhaustiveScan ==
    \A t \in Threads :
        (pc[t] = "derive" /\ k_step = 1) =>
            LET E == evals[i_point[t]]
            IN  /\ EvalSizes(i_point[t]) = k0[t] .. KNN(i_point[t])
                /\ HasNumber(E)
                /\ \E n \in DOMAIN E :
                      /\ E[n].of_k = k_optimal[t]
                      /\ \A m \in DOMAIN E :
                            /\ Leq(E[n].eigenentropy, E[m].eigenentropy)
                            /\ E[m].of_k < E[n].of_k =>
                                   Less(E[n].eigenentropy, E[m].eigenentropy)

\* ---- C8: for every int k_min, a point with k_nn >= 1 and k_nn >= k_min is
\* not zero-filled: it gets at least one neighborhood_pca call and its
\* features are derived from a result of those calls.
C8_SignedComparison ==
    \A i \in Points :
        (returned /\ KNN(i) >= 1 /\ KNN(i) >= k_min) =>
            /\ evals[i] # <<>>
            /\ \E n \in DOMAIN evals[i] : SliceDerivedFrom(i, evals[i][n])

C10_SizesInRange ==
    \A i \in Points :
        \A n \in DOMAIN evals[i] :
            LET kk == evals[i][n].of_k
            IN  /\ 1 <= kk /\ kk <= KNN(i)
                /\ NNReads(i, kk) \subseteq nn_ptr[i] .. nn_ptr[i + 1] - 1

\* ------------------------------------------- what the code does in those cases
\* The sizes evaluated for a point that passes the test of line 140 are k0,
\* k_nn and the multiples of k_step between them.
EvaluatesMultiplesOfStep ==
    \A i \in Points :
        (returned /\ k_step >= 1 /\ ~Degenerate(KNN(i))) =>
            LET kzero == SearchStart(KNN(i))
            IN  EvalSizes(i) =
                    {kzero, KNN(i)} \cup { kk \in kzero .. KNN(i) : kk % k_step = 0 }

\* The stride is not anchored at k0 even when k_min >= 1.
StrideFromK0WhenKMinPositive == k_min >= 1 => C2_StrideFromK0

\* The retained result is the first of minimum eigenentropy unless the first
\* evaluation, at size 0, came back with a NaN eigenentropy.
RetainsFirstMinimumUnlessNaN ==
    \A t \in Threads :
        (pc[t] = "derive" /\ k_step >= 1 /\ evals[i_point[t]][1].eigenentropy # NaN) =>
            /\ FirstOfMinimum(evals[i_point[t]], pca[t])
            /\ k_optimal[t] = pca[t].of_k
            /\ k_step = 1 => C7_SameAsExhaustiveScan

\* The buffer is a function of the inputs when no point is evaluated at size 0.
OutputIsFunctionWhenKMinPositive == k_min >= 1 => C5_OutputIsFunctionOfInputs

\* With k_min >= 0 the test of line 140 is the mathematical one.
UnsignedTestWhenKMinNonNegative ==
    k_min >= 0 => (C6_OneFullPCA /\ C8_SignedComparison)

\* Size 0 is evaluated only when both k_min and k_min_search are below 1.
SizesInRangeWhenFloorPositive ==
    (k_min >= 1 \/ k_min_search >= 1) => C10_SizesInRange

====
